---- MODULE Spec2Model ----
(***************************************************************************)
(* State-machine model of common/lib/capa/capa/responsetypes.py: one       *)
(* response instance (a LoncapaResponse subclass), its construction, its   *)
(* grading calls (get_score, get_answers) and, for the queued variant, the *)
(* score callbacks (update_score) that run on other threads.               *)
(***************************************************************************)
EXTENDS Integers, Sequences, FiniteSets, TLC

VARIABLES
    cfg,      \* arguments of __init__: the response stanza (xml), the input fields, the host flags
    phase,    \* "new" | "ready" | "broken": before / after __init__
    self,     \* attributes __init__ and setup_response set on the instance
    context,  \* the script processor context shared by all calls on the instance
    ret,      \* outcome of the call that ended last
    pc,       \* grading thread: "idle" | "posting" (inside requests.post)
    call,     \* the call the grading thread is inside of while posting
    ghost,    \* history: whether a send reached the queue, whether one failed, whether the
              \* last get_score repeated the one before it
    cb        \* the threads that run score callbacks: where each is inside update_score

vars == <<cfg, phase, self, context, ret, pc, call, ghost, cb>>

\* ------------------------------------------------------------------------
\* Bounds of the model
MaxFields == 2        \* input fields of one response
MaxStash == 2         \* values of a counter the author's checker keeps in the context
MaxSamples == 2       \* the sample count of a formula response
MaxHints == 2         \* hint parts of one hint group
MaxCallbacks == 2     \* threads that run score callbacks at the same time

\* ------------------------------------------------------------------------
\* Class attributes of the variants

Variants ==
    {"multiplechoiceresponse", "truefalseresponse", "optionresponse",
     "numericalresponse", "stringresponse", "customresponse", "symbolicresponse",
     "coderesponse", "externalresponse", "formularesponse", "schematicresponse",
     "imageresponse"}

Tags == {"choicegroup", "optioninput", "textline", "textbox", "schematic", "imageinput"}

\* max_inputfields; None is 0 (both are false in "if self.max_inputfields and ...")
max_inputfields(v) ==
    IF v \in {"multiplechoiceresponse", "truefalseresponse", "numericalresponse",
              "stringresponse", "formularesponse"}
    THEN 1 ELSE 0

allowed_inputfields(v) ==
    CASE v \in {"multiplechoiceresponse", "truefalseresponse"} -> {"choicegroup"}
      [] v = "optionresponse" -> {"optioninput"}
      [] v \in {"numericalresponse", "stringresponse", "formularesponse"} -> {"textline"}
      [] v \in {"customresponse", "symbolicresponse", "coderesponse", "externalresponse"}
            -> {"textline", "textbox"}
      [] v = "schematicresponse" -> {"schematic"}
      [] v = "imageresponse" -> {"imageinput"}

required_attributes(v) ==
    IF v \in {"numericalresponse", "stringresponse", "formularesponse"}
    THEN {"answer"} ELSE {}

\* ------------------------------------------------------------------------
\* Sequences helpers

Range(s) == {s[i] : i \in DOMAIN s}

\* the ids of the input fields, in document order
IdsOf(fields) == [i \in DOMAIN fields |-> fields[i].id]

RECURSIVE SortedSeq(_)
\* sorted(S) of a set of ids
SortedSeq(S) ==
    IF S = {} THEN <<>>
    ELSE LET m == CHOOSE x \in S : \A y \in S : x <= y
         IN <<m>> \o SortedSeq(S \ {m})

\* sorted(self.answer_ids)
sorted(ids) == SortedSeq(Range(ids))

\* idset.index(key)
IndexOf(s, key) == CHOOSE i \in DOMAIN s : s[i] = key

\* ------------------------------------------------------------------------
\* CorrectMap (correctmap.py): answer id -> entry

IdPool == 0 .. MaxFields      \* 0 is an id of another response of the problem

Absent ==
    [has |-> FALSE, correctness |-> "none", npoints |-> "none", msg |-> "", hint |-> "",
     hintmode |-> "none"]

\* CorrectMap()
EmptyMap == [i \in IdPool |-> Absent]

\* CorrectMap.set(answer_id, correctness, msg=msg)
CMapSet(m, aid, correctness, msg) ==
    [m EXCEPT ![aid] = [has |-> TRUE, correctness |-> correctness, npoints |-> "none",
                         msg |-> msg, hint |-> "", hintmode |-> "none"]]

\* CorrectMap.set_property(answer_id, 'msg', value)
CMapSetMsg(m, aid, msg) ==
    [m EXCEPT ![aid] = [@ EXCEPT !.has = TRUE, !.msg = msg]]

\* CorrectMap.set_hint_and_mode(answer_id, hint, hintmode)
set_hint_and_mode(m, aid, hint, hintmode) ==
    [m EXCEPT ![aid] = [@ EXCEPT !.has = TRUE, !.hint = hint, !.hintmode = hintmode]]

\* CorrectMap(answer_id, correctness, msg=msg)
NewMap(aid, correctness, msg) == CMapSet(EmptyMap, aid, correctness, msg)

Keys(m) == {i \in IdPool : m[i].has}

Graded(m) == {i \in IdPool : m[i].has /\ m[i].correctness \in {"correct", "incorrect"}}

\* ------------------------------------------------------------------------
\* Outcomes of a call

NoAnswers == [i \in IdPool |-> "-"]

NoStudentAnswers == [i \in IdPool |-> [has |-> FALSE, s |-> "", l |-> <<>>]]

\* a body that is no XML: "empty", or unparsable ("garbage"); "refused" stands for no body
\* at all, requests.post having raised
BadBody(t) == [text |-> t, ad |-> "missing", message |-> "none", expected |-> "none"]

NoRet ==
    [op |-> "none",              \* the method that ended
     kind |-> "none",            \* "map", "answers", "error" (it raised) or "ok"
     map |-> EmptyMap,           \* the CorrectMap it returned
     answers |-> NoAnswers,      \* the dict get_answers returned
     err |-> "",                 \* the class of the exception it raised
     sa |-> NoStudentAnswers,    \* the student_answers it was called with
     msg |-> BadBody("garbage"), \* the score_msg or the HTTP reply it worked on
     posted |-> "",              \* the edX_cmd it posted to the remote server, if any
     ran |-> {},                 \* the author code it executed
     rnd |-> <<>>,               \* the values check_formula drew for its trials
     at |-> "",                  \* evaluate_answers: the method that raised
     calls |-> 0,                \* evaluate_answers: the calls of the hint function
     shown |-> {},               \* evaluate_answers: the hints_to_show of get_hints
     old |-> EmptyMap]           \* evaluate_answers: the old_cmap it was called with

RetMap(op, sa, m) == [NoRet EXCEPT !.op = op, !.kind = "map", !.map = m, !.sa = sa]

RetErr(op, sa, e) == [NoRet EXCEPT !.op = op, !.kind = "error", !.err = e, !.sa = sa]

RetAnswers(op, a) == [NoRet EXCEPT !.op = op, !.kind = "answers", !.answers = a]

\* ------------------------------------------------------------------------
\* The response stanza and its input fields, as handed to __init__

\* the tags a stanza's input fields are drawn from: one the variant allows and one it
\* does not
TagPool(v) ==
    CASE v \in {"multiplechoiceresponse", "truefalseresponse"} -> {"choicegroup", "textline"}
      [] v = "optionresponse" -> {"optioninput", "textline"}
      [] v \in {"coderesponse", "externalresponse"} -> {"textbox", "choicegroup"}
      [] v = "schematicresponse" -> {"schematic", "textline"}
      [] v = "imageresponse" -> {"imageinput", "textline"}
      [] OTHER -> {"textline", "choicegroup"}

\* ordered lists of at most MaxFields input fields; the ids 1..n run up or down the document
FieldSeqs(v) ==
    UNION {{[i \in 1 .. n |-> [id |-> IF up THEN i ELSE n + 1 - i, tag |-> t[i]]] :
                up \in BOOLEAN, t \in [1 .. n -> TagPool(v)]} : n \in 0 .. MaxFields}

\* the stanza has no <hintgroup>
NoHintGroup ==
    [present |-> FALSE,
     hintfn |-> "absent",   \* the attribute hintfn=: absent, or names a bound / unbound function
     fnauthor |-> "-",      \* what the hint function does: "sets" a hint or "raises"
     mode |-> "unset",      \* the attribute mode=
     hints |-> <<>>,        \* the names of the elements with the variant's hint_tag, in order
     parts |-> <<>>]        \* the on= of the <hintpart> elements, in order

BaseCfg(v) ==
    [variant |-> v, fields |-> <<>>, hintgroup |-> NoHintGroup,
     answer |-> "absent",     \* the attribute answer= of the stanza: absent, empty or set
     stanza |-> FALSE,        \* an <answer> child is present
     cfn |-> "absent",        \* the attribute cfn=: absent, or names a bound / unbound function
     script_code |-> FALSE,   \* context['script_code'] is not empty
     author |-> "-",          \* what the author's code of the stanza does when it runs
     correct_choices |-> {},  \* names of the <choice correct="true"> elements
     type |-> "cs",           \* the attribute type= of the stanza
     declared |-> "",         \* the value of answer=
     tolerance |-> "unset",   \* <responseparam type="tolerance" default=...>, if any
     samples |-> 0,           \* the sample count of samples=
     badrect |-> 0,           \* the id of the input field whose rectangle= is malformed
     DEBUG |-> FALSE]         \* system.DEBUG

AnswerAttrs(v) ==
    IF v \in {"numericalresponse", "stringresponse", "formularesponse"}
    THEN {"absent", "empty", "set"}
    ELSE IF v \in {"customresponse", "symbolicresponse"} THEN {"absent", "set"}
    ELSE {"absent"}

Stanzas(v) ==
    IF v \in {"customresponse", "symbolicresponse", "coderesponse", "externalresponse",
              "schematicresponse"}
    THEN BOOLEAN ELSE {FALSE}

Cfns(v) == IF v = "customresponse" THEN {"absent", "bound", "unbound"} ELSE {"absent"}

ScriptCodes(v) == IF v \in {"coderesponse", "externalresponse"} THEN BOOLEAN ELSE {FALSE}

Debugs(v) == IF v = "externalresponse" THEN BOOLEAN ELSE {FALSE}

\* the names mc_setup_response gives the <choice> elements
Choices == {"choice_0", "choice_1"}

InlineAuthors == {"inplace", "rebind", "stash", "raises"}

CfnAuthors == {"bool", "dict", "none", "raises"}

\* what the author's code does: the inline checker or the checker function of a custom
\* response, the reference code of a code response, the checker of a schematic response,
\* and for a formula response whether the problem's script defines the numeric name k
Authors(v, st, fn) ==
    CASE v \in {"customresponse", "symbolicresponse"} /\ st -> InlineAuthors
      [] v = "customresponse" /\ ~st /\ fn = "bound" -> CfnAuthors
      [] v = "symbolicresponse" /\ ~st -> CfnAuthors
      [] v = "coderesponse" -> {"answer", "noanswer", "raises"}
      [] v = "schematicresponse" -> {"assign", "noassign", "raises"}
      [] v = "formularesponse" -> {"-", "k"}
      [] OTHER -> {"-"}

CorrectChoices(v) ==
    IF v \in {"multiplechoiceresponse", "truefalseresponse"} THEN SUBSET Choices ELSE {{}}

Types(v) == IF v = "stringresponse" THEN {"cs", "ci"} ELSE {"cs"}

Declareds(v) ==
    CASE v = "numericalresponse" -> {"4", "four"}
      [] v = "stringresponse" -> {"Paris"}
      [] v = "formularesponse" -> {"2*x", "k*x"}
      [] OTHER -> {""}

Tolerances(v) == IF v = "numericalresponse" THEN {"unset", "1", "25%", "junk"} ELSE {"unset"}

SampleCounts(v) == IF v = "formularesponse" THEN 0 .. MaxSamples ELSE {0}

BadRects(v, f) == IF v = "imageresponse" THEN {0} \cup Range(IdsOf(f)) ELSE {0}

CfgsOf(v, f, st, fn) ==
    {[BaseCfg(v) EXCEPT !.fields = f, !.answer = a, !.stanza = st, !.cfn = fn,
                        !.script_code = sc, !.DEBUG = dbg, !.author = au,
                        !.correct_choices = cc, !.type = ty, !.declared = de,
                        !.tolerance = tol, !.samples = ns, !.badrect = br] :
        a \in AnswerAttrs(v), sc \in IF st THEN {FALSE} ELSE ScriptCodes(v),
        dbg \in Debugs(v), au \in Authors(v, st, fn), cc \in CorrectChoices(v),
        ty \in Types(v), de \in Declareds(v), tol \in Tolerances(v),
        ns \in SampleCounts(v), br \in BadRects(v, f)}

Cfgs ==
    UNION {UNION {CfgsOf(v, f, st, fn) :
                    f \in FieldSeqs(v), st \in Stanzas(v), fn \in Cfns(v)} : v \in Variants}

\* ------------------------------------------------------------------------
\* LoncapaResponse.__init__

NoSelf == [answer_ids |-> <<>>, answer_id |-> 0, code |-> "none"]

\* the three checks __init__ makes before it sets answer_ids
BadTag(c) == \E i \in DOMAIN c.fields : c.fields[i].tag \notin allowed_inputfields(c.variant)

TooManyFields(c) ==
    max_inputfields(c.variant) # 0 /\ Len(c.fields) > max_inputfields(c.variant)

\* "if not xml.get(prop)": the attribute is absent or empty
MissingAttribute(c) == \E prop \in required_attributes(c.variant) : c.answer # "set"

ValidationError(c) ==
    IF BadTag(c) \/ TooManyFields(c) \/ MissingAttribute(c)
    THEN "LoncapaProblemError" ELSE ""

\* "if self.max_inputfields==1: self.answer_id = self.answer_ids[0]"
AnswerIdError(c) ==
    IF max_inputfields(c.variant) = 1 /\ Len(c.fields) = 0 THEN "IndexError" ELSE ""

\* CustomResponse.setup_response: [err, code]
CustomSetup(c, cfn) ==
    IF c.stanza THEN [err |-> "", code |-> "str"]
    ELSE IF cfn = "bound" THEN [err |-> "", code |-> "fn"]
    ELSE IF cfn = "unbound" THEN [err |-> "LoncapaProblemError", code |-> "none"]
    ELSE [err |-> "", code |-> "empty"]

\* CodeResponse.setup_response and ExternalResponse.setup_response
ExternalSetup(c) ==
    IF c.stanza \/ c.script_code THEN [err |-> "", code |-> "str"]
    ELSE [err |-> "LoncapaProblemError", code |-> "none"]

\* SchematicResponse.setup_response: "xml.xpath(...)[0]"
SchematicSetup(c) ==
    IF c.stanza THEN [err |-> "", code |-> "str"]
    ELSE [err |-> "IndexError", code |-> "none"]

setup_response(c) ==
    CASE c.variant = "customresponse" -> CustomSetup(c, c.cfn)
      [] c.variant = "symbolicresponse" -> CustomSetup(c, "bound")
      [] c.variant \in {"coderesponse", "externalresponse"} -> ExternalSetup(c)
      [] c.variant = "schematicresponse" -> SchematicSetup(c)
      [] OTHER -> [err |-> "", code |-> "none"]

InitError(c) ==
    IF ValidationError(c) # "" THEN ValidationError(c)
    ELSE IF AnswerIdError(c) # "" THEN AnswerIdError(c)
    ELSE setup_response(c).err

Construct ==
    /\ phase = "new"
    /\ IF InitError(cfg) # ""
       THEN /\ phase' = "broken"
            /\ ret' = RetErr("__init__", NoStudentAnswers, InitError(cfg))
            /\ self' = self
       ELSE /\ phase' = "ready"
            /\ ret' = [NoRet EXCEPT !.op = "__init__", !.kind = "ok"]
            /\ self' = [answer_ids |-> IdsOf(cfg.fields),
                        answer_id |-> IF Len(cfg.fields) > 0 THEN cfg.fields[1].id ELSE 0,
                        code |-> setup_response(cfg).code]
    /\ UNCHANGED <<cfg, context, pc, call, ghost, cb>>

\* ------------------------------------------------------------------------
\* Replies of the remote judge: the body of an HTTP reply, or a score_msg

AwardCodes == {"EXACT_ANS", "WRONG_FORMAT", "INTERNAL_ERROR"}

\* XML bodies of a grading reply: <awarddetail> (or none), <message> text (or none)
ScoreBodies ==
    {[text |-> "xml", ad |-> a, message |-> m, expected |-> "none"] :
        a \in AwardCodes \cup {"missing"}, m \in {"none", "a&nbsp;b"}}

\* what update_score is handed
ScoreMsgs == ScoreBodies \cup {BadBody("garbage")}

\* what requests.post returns to ExternalResponse for edX_cmd=get_score
ScoreReplies == ScoreBodies \cup {BadBody("garbage"), BadBody("empty")}

\* what requests.post returns to ExternalResponse for edX_cmd=get_answers:
\* <expected> holds a JSON list with one answer per answer id, a shorter one, or is missing
AnswerReplies ==
    {[text |-> "xml", ad |-> "missing", message |-> "none", expected |-> e] :
        e \in {"none", "short", "full"}} \cup {BadBody("garbage"), BadBody("empty")}

\* requests.post: the server replies, the connection fails, or no reply ever comes
Nets == {"reply", "refused", "silent"}

\* an admap that takes WRONG_FORMAT for an accepted answer
admap_lenient == [EXACT_ANS |-> "correct", WRONG_FORMAT |-> "correct"]

\* admap
admap == [EXACT_ANS |-> "correct", WRONG_FORMAT |-> "incorrect"]

\* .replace('&nbsp;','&#160;')
replace_nbsp(m) == IF m = "a&nbsp;b" THEN "a&#160;b" ELSE m

\* ------------------------------------------------------------------------
\* The context, and what the model remembers of the run

InitContext ==
    [submission |-> <<>>,  \* context['submission']
     correct |-> <<>>,     \* context['correct']; <<>> while the name is not bound
     messages |-> <<>>,    \* context['messages']
     stash |-> 0]          \* a counter the author's inline checker keeps in a name of its own

InitGhost ==
    [sent |-> FALSE,       \* a get_score of the queued variant reached the queue
     failed |-> FALSE,     \* a get_score of the queued variant failed to reach it
     repeat |-> FALSE]     \* the last call was a get_score with the submission of the
                           \* get_score before it

NoCall == [op |-> "none", sa |-> NoStudentAnswers, net |-> "reply"]

Threads == 1 .. MaxCallbacks

\* no thread is inside update_score
IdleCb ==
    [pc |-> [t \in Threads |-> "idle"],  \* "idle" | "apply" | "build": the statement it is at
     msg |-> [t \in Threads |-> BadBody("garbage")],  \* the score_msg of its call
     mixed |-> [t \in Threads |-> FALSE],  \* another thread ran inside its call
     last |-> 0,                          \* the thread whose call ended last
     alone |-> TRUE]                      \* no other thread ran inside the call that ended last

\* "submission = [student_answers[k] for k in idset]": a KeyError when a key is missing
MissingKey(ids, sa) == \E k \in Range(ids) : ~sa[k].has

Submission(ids, sa) == [i \in DOMAIN sorted(ids) |-> sa[sorted(ids)[i]]]

\* ------------------------------------------------------------------------
\* The tail shared by CodeResponse.update_score and ExternalResponse.get_score

\* "ad = rxml.find('awarddetail').text": fails when the element is missing
AwardDetailError(msg) == IF msg.ad = "missing" THEN "AttributeError" ELSE ""

\* "self.context['correct'] = ['correct']"
ResetCorrect(ctx) == [ctx EXCEPT !.correct = <<"correct">>]

\* "if ad in admap: self.context['correct'][0] = admap[ad]"
ApplyAdmap(ctx, msg) ==
    IF msg.ad \in DOMAIN admap /\ Len(ctx.correct) > 0
    THEN [ctx EXCEPT !.correct[1] = admap[msg.ad]]
    ELSE ctx

RECURSIVE BuildMap(_, _, _, _, _)
\* "for key in idset: ... cmap.set(key, self.context['correct'][idx], msg=msg)":
\* [err, map] from position k of idset on
BuildMap(idset, k, ctx, msg, m) ==
    IF k > Len(idset) THEN [err |-> "", map |-> m]
    ELSE IF k = 1 /\ msg.message = "none" THEN [err |-> "AttributeError", map |-> m]
    ELSE IF k > Len(ctx.correct) THEN [err |-> "IndexError", map |-> m]
    ELSE BuildMap(idset, k + 1, ctx, msg,
                  CMapSet(m, idset[k], ctx.correct[k],
                          IF k = 1 THEN replace_nbsp(msg.message) ELSE "None"))

\* the outcome of the loop as the outcome of the call
BuildResult(op, sa, slf, ctx, msg) ==
    LET b == BuildMap(sorted(slf.answer_ids), 1, ctx, msg, EmptyMap)
    IN IF b.err # "" THEN RetErr(op, sa, b.err) ELSE RetMap(op, sa, b.map)

\* ------------------------------------------------------------------------
\* CodeResponse

\* a _send_to_queue that swallows the failure of requests.post
send_to_queue_quiet(net) == ""

\* _send_to_queue: the error it raises, if any
send_to_queue(net) == IF net = "refused" THEN "Exception" ELSE ""

\* a get_score that accepts the submission as soon as it is queued
CodeGetScoreEager(sa, net) == RetMap("get_score", sa, NewMap(1, "correct", ""))

\* get_score from "r = self._send_to_queue(extra_payload)" on
CodeGetScore(sa, net) ==
    IF send_to_queue(net) # "" THEN RetErr("get_score", sa, send_to_queue(net))
    ELSE RetMap("get_score", sa, EmptyMap)

\* update_score up to and including "self.context['correct'] = ['correct']": [err, context]
UpdateScoreStart(ctx, msg) ==
    IF msg.text # "xml" THEN [err |-> "Exception", context |-> ctx]
    ELSE IF AwardDetailError(msg) # "" THEN [err |-> AwardDetailError(msg), context |-> ctx]
    ELSE [err |-> "", context |-> ResetCorrect(ctx)]

\* update_score run without interruption: [ret, context]
update_score(slf, ctx, msg) ==
    LET st == UpdateScoreStart(ctx, msg)
        c2 == ApplyAdmap(st.context, msg)
    IN IF st.err # ""
       THEN [ret |-> [RetErr("update_score", NoStudentAnswers, st.err) EXCEPT !.msg = msg],
             context |-> ctx]
       ELSE [ret |-> [BuildResult("update_score", NoStudentAnswers, slf, c2, msg)
                         EXCEPT !.msg = msg],
             context |-> c2]

\* "dict(zip(self.answer_ids, vals))"
ZipAnswers(ids, vals) ==
    [i \in IdPool |->
        IF \E k \in DOMAIN ids : ids[k] = i /\ k <= Len(vals)
        THEN vals[CHOOSE k \in DOMAIN ids : ids[k] = i] ELSE "-"]

\* get_answers: runs the reference code in a namespace of its own and reads 'answer' from it
CodeGetAnswers(c, slf) ==
    IF c.author = "raises" THEN RetErr("get_answers", NoStudentAnswers, "Exception")
    ELSE IF c.author = "noanswer" THEN RetErr("get_answers", NoStudentAnswers, "Exception")
    ELSE RetAnswers("get_answers", ZipAnswers(slf.answer_ids, <<"anshtml">>))

\* ------------------------------------------------------------------------
\* ExternalResponse

\* do_external_request: the error it raises, if any
do_external_request(net, reply) ==
    IF net = "refused" THEN "Exception"
    ELSE IF reply.text = "empty" THEN "Exception"
    ELSE IF reply.text # "xml" THEN "Exception"
    ELSE ""

RECURSIVE SetAll(_, _, _, _)
\* "cmap.set_dict(dict(zip(sorted(self.answer_ids), ['incorrect'] * len(idset))))"
SetAll(m, idset, k, correctness) ==
    IF k > Len(idset) THEN m
    ELSE SetAll(CMapSet(m, idset[k], correctness, ""), idset, k + 1, correctness)

\* the except branch of get_score
ExternalRequestFailed(c, slf, sa) ==
    IF c.DEBUG
    THEN IF Len(slf.answer_ids) = 0 THEN RetErr("get_score", sa, "IndexError")
         ELSE RetMap("get_score", sa,
                     CMapSetMsg(SetAll(EmptyMap, sorted(slf.answer_ids), 1, "incorrect"),
                                slf.answer_ids[1], "errtext"))
    ELSE RetErr("get_score", sa, "UnboundLocalError")

\* get_score from "rxml = self.do_external_request('get_score',extra_payload)" on: [ret, context]
ExternalGetScore(c, slf, ctx, sa, net, reply) ==
    LET c2 == ApplyAdmap(ResetCorrect(ctx), reply)
    IN IF do_external_request(net, reply) # ""
       THEN [ret |-> ExternalRequestFailed(c, slf, sa), context |-> ctx]
       ELSE IF AwardDetailError(reply) # ""
       THEN [ret |-> RetErr("get_score", sa, AwardDetailError(reply)), context |-> ctx]
       ELSE [ret |-> BuildResult("get_score", sa, slf, c2, reply), context |-> c2]

\* get_answers from "rxml = self.do_external_request('get_answers',{})" on
ExternalGetAnswers(c, slf, net, reply) ==
    LET n == Len(slf.answer_ids)
        failed == do_external_request(net, reply) # "" \/ reply.expected = "none"
    IN IF failed /\ ~c.DEBUG THEN RetErr("get_answers", NoStudentAnswers, "UnboundLocalError")
       ELSE IF failed /\ n = 0 THEN RetErr("get_answers", NoStudentAnswers, "IndexError")
       ELSE IF failed
       THEN RetAnswers("get_answers",
                       ZipAnswers(slf.answer_ids,
                                  [k \in 1 .. n |-> IF k = 1 THEN "errtext" ELSE ""]))
       ELSE IF reply.expected = "short"
       THEN RetErr("get_answers", NoStudentAnswers, "Exception")
       ELSE RetAnswers("get_answers",
                       ZipAnswers(slf.answer_ids, [k \in 1 .. n |-> "expected"]))

\* ------------------------------------------------------------------------
\* Student answers: answer id -> value. A value is a string (s) or a list (l).

Missing == [has |-> FALSE, s |-> "", l |-> <<>>]

Val(x) == [has |-> TRUE, s |-> x, l |-> <<>>]

ListVal(x) == [has |-> TRUE, s |-> "", l |-> x]

\* lists of at most two choice names
ChoiceLists == {<<>>} \cup {<<a>> : a \in Choices} \cup {<<a, b>> : a, b \in Choices}

\* the rectangle of the imageresponse snippet, "(10,10)-(20,30)"
RectLlx == 10
RectLly == 10
RectUrx == 20
RectUry == 30

\* "[x,y]" strings: the corners, a point inside, and the points one unit off each edge
Points ==
    {<<RectLlx, RectLly>>, <<RectLlx, RectUry>>, <<RectUrx, RectLly>>, <<RectUrx, RectUry>>,
     <<RectLlx + 5, RectLly + 10>>,
     <<RectLlx - 1, RectLly>>, <<RectUrx + 1, RectUry>>,
     <<RectLlx, RectLly - 1>>, <<RectUrx, RectUry + 1>>}

PointVal(p) == [has |-> TRUE, s |-> "point", l |-> p]

\* every value a field of the variant is tried with
FullValues(c) ==
    CASE c.variant = "multiplechoiceresponse" -> {Missing} \cup {Val(x) : x \in Choices}
      [] c.variant = "truefalseresponse" -> {Missing} \cup {ListVal(x) : x \in ChoiceLists}
      [] c.variant = "optionresponse" -> {Missing, Val("Up"), Val("Down")}
      [] c.variant = "numericalresponse" ->
            {Missing, Val("3"), Val("4"), Val("5"), Val("6"), Val("four")}
      [] c.variant = "stringresponse" ->
            {Missing, Val("Paris"), Val("paris"), Val(" Paris "), Val("London")}
      [] c.variant \in {"customresponse", "symbolicresponse"} ->
            {Missing, Val(""), Val("good"), Val("bad")}
      [] c.variant \in {"coderesponse", "externalresponse"} -> {Missing, Val("code")}
      [] c.variant = "formularesponse" ->
            {Missing, Val("x"), Val("x+x"), Val("2*x"), Val("x*x"), Val("k*x"),
             Val("x*1e999"), Val("x+")}
      [] c.variant = "schematicresponse" -> {Missing, Val("[1]"), Val("[0]"), Val("{")}
      [] c.variant = "imageresponse" ->
            {Missing, Val("junk")} \cup {PointVal(p) : p \in Points}

\* the values the other fields take while one field runs through FullValues
BaseValues(c) ==
    CASE c.variant = "optionresponse" -> {Val("Up"), Val("Down")}
      [] c.variant \in {"customresponse", "symbolicresponse"} -> {Val("good")}
      [] c.variant \in {"coderesponse", "externalresponse"} -> {Val("code")}
      [] c.variant = "schematicresponse" -> {Val("[1]"), Val("[0]")}
      [] c.variant = "imageresponse" ->
            {PointVal(<<RectLlx + 5, RectLly + 10>>), PointVal(<<RectLlx - 1, RectLly>>)}
      [] OTHER -> FullValues(c)

\* the posted form may carry a key of another response (id 0)
ForeignValues(c) == {Missing, Val("other")}

\* one field runs through FullValues while the others, and the foreign key, keep to the base
StudentAnswers(c) ==
    LET own == Range(IdsOf(c.fields))
    IN UNION {{[i \in IdPool |->
                    IF i = 0 THEN fv
                    ELSE IF i \notin own THEN Missing
                    ELSE IF i = f THEN v ELSE b[i]] :
                fv \in IF f = 0 THEN ForeignValues(c) ELSE {Missing},
                v \in FullValues(c), b \in [own -> BaseValues(c)]} :
              f \in own \cup {0}}

\* ------------------------------------------------------------------------
\* MultipleChoiceResponse, TrueFalseResponse, OptionResponse

Outcome(r, ctx) == [ret |-> r, context |-> ctx]

\* the outcome of a call that executed author code
Ran(r, ctx, code) == [ret |-> [r EXCEPT !.ran = {code}], context |-> ctx]

MultipleChoiceGetScore(c, slf, ctx, sa) ==
    Outcome(RetMap("get_score", sa,
                   NewMap(slf.answer_id,
                          IF sa[slf.answer_id].has /\ sa[slf.answer_id].s \in c.correct_choices
                          THEN "correct" ELSE "incorrect", "")),
            ctx)

\* a get_score that accepts every submission within the correct choices
TrueFalseGetScoreSubset(c, slf, ctx, sa) ==
    LET answers == IF sa[slf.answer_id].has THEN Range(sa[slf.answer_id].l) ELSE {}
    IN Outcome(RetMap("get_score", sa,
                      NewMap(slf.answer_id,
                             IF answers \subseteq c.correct_choices THEN "correct"
                             ELSE "incorrect", "")),
               ctx)

\* "answers = set(student_answers.get(self.answer_id, []))"
TrueFalseGetScore(c, slf, ctx, sa) ==
    LET answers == IF sa[slf.answer_id].has THEN Range(sa[slf.answer_id].l) ELSE {}
    IN Outcome(RetMap("get_score", sa,
                      NewMap(slf.answer_id,
                             IF c.correct_choices = answers THEN "correct" ELSE "incorrect",
                             "")),
               ctx)

\* the attribute correct= of the option input with this id
OptionCorrect(id) == IF id % 2 = 1 THEN "Up" ELSE "Down"

RECURSIVE OptionLoop(_, _, _, _)
\* "for aid in amap: ..."
OptionLoop(ids, k, sa, m) ==
    IF k > Len(ids) THEN m
    ELSE OptionLoop(ids, k + 1, sa,
                    CMapSet(m, ids[k],
                            IF sa[ids[k]].has /\ sa[ids[k]].s = OptionCorrect(ids[k])
                            THEN "correct" ELSE "incorrect", ""))

OptionGetScore(c, slf, ctx, sa) ==
    Outcome(RetMap("get_score", sa, OptionLoop(slf.answer_ids, 1, sa, EmptyMap)), ctx)

\* ------------------------------------------------------------------------
\* NumericalResponse

\* evaluator(dict(), dict(), text) on the numerals of the model; -1 is a failure
NumEval(text) ==
    CASE text = "0" -> 0 [] text = "1" -> 1 [] text = "3" -> 3 [] text = "4" -> 4
      [] text = "5" -> 5 [] text = "6" -> 6 [] text = "25" -> 25
      [] OTHER -> -1

Abs(x) == IF x < 0 THEN -x ELSE x

\* util.compare_with_tolerance: [err, ok]; tol is the default 0, an absolute bound or "p%"
compare_with_tolerance(given, expected, tol) ==
    CASE tol = "unset" -> [err |-> FALSE, ok |-> given = expected]
      [] tol = "0.00001" -> [err |-> FALSE, ok |-> given = expected]
      [] tol = "25%" ->
            [err |-> FALSE, ok |-> Abs(given - expected) * 100 <= 25 * Abs(expected)]
      [] NumEval(tol) >= 0 ->
            [err |-> FALSE, ok |-> Abs(given - expected) <= NumEval(tol)]
      [] OTHER -> [err |-> TRUE, ok |-> FALSE]

NumericalGetScore(c, slf, ctx, sa) ==
    LET given == NumEval(sa[slf.answer_id].s)
        expected == NumEval(c.declared)
        cmp == compare_with_tolerance(given, expected, c.tolerance)
    IN IF ~sa[slf.answer_id].has THEN Outcome(RetErr("get_score", sa, "KeyError"), ctx)
       ELSE IF given < 0 \/ expected < 0 \/ cmp.err
       THEN Outcome(RetErr("get_score", sa, "StudentInputError"), ctx)
       ELSE Outcome(RetMap("get_score", sa,
                           NewMap(slf.answer_id, IF cmp.ok THEN "correct" ELSE "incorrect",
                                  "")),
                    ctx)

\* ------------------------------------------------------------------------
\* StringResponse

\* str.strip()
strip(x) == IF x = " Paris " THEN "Paris" ELSE x

\* str.lower()
lower(x) ==
    CASE x = "Paris" -> "paris" [] x = " Paris " -> " paris " [] x = "London" -> "london"
      [] OTHER -> x

check_string(c, expected, given) ==
    IF c.type = "ci" THEN lower(given) = lower(expected) ELSE given = expected

StringGetScore(c, slf, ctx, sa) ==
    IF ~sa[slf.answer_id].has THEN Outcome(RetErr("get_score", sa, "KeyError"), ctx)
    ELSE Outcome(RetMap("get_score", sa,
                        NewMap(slf.answer_id,
                               IF check_string(c, strip(c.declared), strip(sa[slf.answer_id].s))
                               THEN "correct" ELSE "incorrect", "")),
                 ctx)

\* ------------------------------------------------------------------------
\* CustomResponse (and SymbolicResponse, which only differs in setup_response)

\* what the author's checker makes of one submitted value
Verdict(v) == IF v.s = "good" THEN "correct" ELSE "incorrect"

AllGood(submission) == \A k \in DOMAIN submission : submission[k].s = "good"

Repeat(x, n) == [k \in 1 .. n |-> x]

\* an exec that runs every inline checker as one that accepts from its second run on
ExecInlineCounting(c, slf, ctx, submission) ==
    LET late == [k \in 1 .. Len(submission) |->
                    IF ctx.stash >= 1 THEN Verdict(submission[k]) ELSE "incorrect"]
    IN [correct |-> late,
        context |-> [ctx EXCEPT !.correct = late,
                                !.stash = IF @ < MaxStash THEN @ + 1 ELSE @]]

\* "exec self.code in self.context['global_context'], self.context" inside try/except:
\* [correct, context], correct being the list get_score holds in its local variable
\*   inplace: the code assigns correct[k] item by item
\*   rebind:  the code assigns a new list to the name correct
\*   stash:   the code counts its runs in a name of its own and accepts from the second on
\*   raises:  the code raises before it assigns anything
ExecInline(c, slf, ctx, submission) ==
    LET n == Len(submission)
        verdicts == [k \in 1 .. n |-> Verdict(submission[k])]
        late == [k \in 1 .. n |-> IF ctx.stash >= 1 THEN Verdict(submission[k])
                                  ELSE "incorrect"]
    IN CASE slf.code = "str" /\ c.author = "inplace" ->
                [correct |-> verdicts, context |-> [ctx EXCEPT !.correct = verdicts]]
         [] slf.code = "str" /\ c.author = "rebind" ->
                [correct |-> ctx.correct, context |-> [ctx EXCEPT !.correct = verdicts]]
         [] slf.code = "str" /\ c.author = "stash" ->
                [correct |-> late,
                 context |-> [ctx EXCEPT !.correct = late,
                                         !.stash = IF @ < MaxStash THEN @ + 1 ELSE @]]
         [] OTHER -> [correct |-> ctx.correct, context |-> ctx]

\* the else branch, "self.code is not a string; assume its a function": [err, correct, messages]
\*   bool: the function returns True or False; dict: it returns {'ok':..., 'msg':...};
\*   none: it returns nothing; raises: it raises
CallCfn(c, slf, ctx, submission) ==
    LET n == Len(submission)
        all(v) == [err |-> "", correct |-> Repeat(v, n), messages |-> ctx.messages]
        flag == IF AllGood(submission) THEN "correct" ELSE "incorrect"
    IN IF n = 0 \/ c.author = "raises"
       THEN [err |-> "Exception", correct |-> ctx.correct, messages |-> ctx.messages]
       ELSE IF c.author = "dict"
       THEN [err |-> "", correct |-> Repeat(flag, n),
             messages |-> [ctx.messages EXCEPT ![1] = "fnmsg"]]
       ELSE IF c.author = "bool" THEN all(flag)
       ELSE all("incorrect")

\* a loop that files the verdicts under a key of its own making
CustomBuildForeign(idset, k, correct, messages, m) == NewMap(0, "correct", "")

RECURSIVE CustomBuild(_, _, _, _, _)
\* "for k in range(len(idset)): correct_map.set(idset[k], correct[k], msg=messages[k])"
CustomBuild(idset, k, correct, messages, m) ==
    IF k > Len(idset) THEN m
    ELSE CustomBuild(idset, k + 1, correct, messages,
                     CMapSet(m, idset[k], correct[k], messages[k]))

CustomGetScore(c, slf, ctx, sa) ==
    LET idset == sorted(slf.answer_ids)
        n == Len(idset)
        submission == Submission(slf.answer_ids, sa)
        ctx1 == [ctx EXCEPT !.submission = submission,
                            !.correct = Repeat("unknown", n), !.messages = Repeat("", n)]
        ex == ExecInline(c, slf, ctx1, submission)
        fn == CallCfn(c, slf, ctx1, submission)
    IN IF MissingKey(slf.answer_ids, sa)
       THEN Outcome(RetErr("get_score", sa, "Exception"), ctx)
       ELSE IF n = 1 /\ submission[1].s = ""
       THEN Outcome(RetMap("get_score", sa, NewMap(idset[1], "incorrect", "noanswer")), ctx)
       ELSE IF slf.code # "fn"
       THEN Ran(RetMap("get_score", sa,
                       CustomBuild(idset, 1, ex.correct, ctx1.messages, EmptyMap)),
                ex.context, "checker")
       ELSE IF fn.err # "" THEN Ran(RetErr("get_score", sa, fn.err), ctx1, "checker")
       ELSE Ran(RetMap("get_score", sa,
                       CustomBuild(idset, 1, fn.correct, fn.messages, EmptyMap)),
                [ctx1 EXCEPT !.messages = fn.messages], "checker")

\* get_answers: default_answer_map holds the correct_answer= of the input fields (none here)
CustomGetAnswers(c, slf) ==
    IF Len(slf.answer_ids) > 1 THEN RetAnswers("get_answers", NoAnswers)
    ELSE IF c.answer = "set" /\ Len(slf.answer_ids) = 0
    THEN RetErr("get_answers", NoStudentAnswers, "IndexError")
    ELSE IF c.answer = "set"
    THEN RetAnswers("get_answers", ZipAnswers(slf.answer_ids, <<"expect">>))
    ELSE RetAnswers("get_answers", NoAnswers)

\* ------------------------------------------------------------------------
\* SchematicResponse

\* json.loads of a submitted value: fails on "{"
JsonError(v) == v.s = "{"

\* the checker's verdict on one parsed value
SchematicVerdict(v) == IF v.s = "[1]" THEN "correct" ELSE "incorrect"

\* "cmap.set_dict(dict(zip(sorted(self.answer_ids), self.context['correct'])))"
ZipMap(idset, correct) ==
    [i \in IdPool |->
        IF \E k \in DOMAIN idset : idset[k] = i /\ k <= Len(correct)
        THEN [Absent EXCEPT !.has = TRUE,
                            !.correctness = correct[CHOOSE k \in DOMAIN idset : idset[k] = i]]
        ELSE Absent]

\* author: assign (the code sets correct to one verdict per value), noassign, raises
SchematicGetScore(c, slf, ctx, sa) ==
    LET idset == sorted(slf.answer_ids)
        submission == Submission(slf.answer_ids, sa)
        ctx1 == [ctx EXCEPT !.submission = submission]
        ctx2 == IF c.author = "assign"
                THEN [ctx1 EXCEPT !.correct =
                          [k \in DOMAIN submission |-> SchematicVerdict(submission[k])]]
                ELSE ctx1
    IN IF MissingKey(slf.answer_ids, sa) THEN Outcome(RetErr("get_score", sa, "KeyError"), ctx)
       ELSE IF \E k \in DOMAIN submission : JsonError(submission[k])
       THEN Outcome(RetErr("get_score", sa, "ValueError"), ctx)
       ELSE IF c.author = "raises"
       THEN Ran(RetErr("get_score", sa, "Exception"), ctx1, "checker")
       ELSE IF c.author = "noassign" /\ ctx.correct = <<>>
       THEN Ran(RetErr("get_score", sa, "KeyError"), ctx1, "checker")
       ELSE Ran(RetMap("get_score", sa, ZipMap(idset, ctx2.correct)), ctx2, "checker")

\* ------------------------------------------------------------------------
\* ImageResponse

\* a loop that takes the edges of the rectangle to be outside
ImageLoopStrict(c, ids, k, sa, m) ==
    [err |-> IF \E i \in Range(ids) : ~sa[i].has THEN "KeyError"
             ELSE IF \E i \in Range(ids) : c.badrect = i THEN "TypeError"
             ELSE IF \E i \in Range(ids) : sa[i].s # "point" THEN "Exception"
             ELSE "",
     map |-> [i \in IdPool |->
                IF i \notin Range(ids) THEN Absent
                ELSE [Absent EXCEPT
                        !.has = TRUE,
                        !.correctness =
                            IF /\ sa[i].s = "point"
                               /\ RectLlx < sa[i].l[1] /\ sa[i].l[1] < RectUrx
                               /\ RectLly < sa[i].l[2] /\ sa[i].l[2] < RectUry
                            THEN "correct" ELSE "incorrect"]]]

RECURSIVE ImageLoop(_, _, _, _, _)
\* "for aid in self.answer_ids: ...": [err, map]
ImageLoop(c, ids, k, sa, m) ==
    IF k > Len(ids) THEN [err |-> "", map |-> m]
    ELSE LET aid == ids[k]
             given == sa[aid]
         IN IF ~given.has THEN [err |-> "KeyError", map |-> m]
            ELSE IF c.badrect = aid THEN [err |-> "TypeError", map |-> m]
            ELSE IF given.s # "point" THEN [err |-> "Exception", map |-> m]
            ELSE ImageLoop(c, ids, k + 1, sa,
                           CMapSet(m, aid,
                                   IF /\ RectLlx <= given.l[1] /\ given.l[1] <= RectUrx
                                      /\ RectLly <= given.l[2] /\ given.l[2] <= RectUry
                                   THEN "correct" ELSE "incorrect", ""))

ImageGetScore(c, slf, ctx, sa) ==
    LET r == ImageLoop(c, slf.answer_ids, 1, sa, EmptyMap)
    IN IF r.err # "" THEN Outcome(RetErr("get_score", sa, r.err), ctx)
       ELSE Outcome(RetMap("get_score", sa, r.map), ctx)

\* ------------------------------------------------------------------------
\* FormulaResponse

\* the values random.uniform draws for the one sampled variable x
SampleVals == {1, 2}

Num(v) == [kind |-> "num", v |-> v]

\* calc.evaluator(variables, dict(), expr, cs=...): x is the sampled value of x, and k is
\* bound to 2 when the variables hold the author's name k
evaluator(expr, x, hasK) ==
    CASE expr = "x" -> Num(x)
      [] expr \in {"x+x", "2*x"} -> Num(2 * x)
      [] expr = "x*x" -> Num(x * x)
      [] expr = "k*x" -> IF hasK THEN Num(2 * x) ELSE [kind |-> "UndefinedVariable", v |-> 0]
      [] expr = "x*1e999" -> [kind |-> "inf", v |-> 0]
      [] OTHER -> [kind |-> "ParseException", v |-> 0]

\* strip_dict(dict(self.context)) keeps the author's numeric name k, when the script set one
HasK(c) == c.author = "k"

\* the tolerance setup_response stores
FormulaTolerance(c) == IF c.tolerance = "unset" THEN "0.00001" ELSE c.tolerance

\* a loop that stops after its first trial
TrialsFirstOnly(c, expected, given, rnd, i) ==
    IF Len(rnd) = 0 THEN [err |-> "", verdict |-> "correct"]
    ELSE LET instructor == evaluator(expected, rnd[1], HasK(c))
             student == evaluator(given, rnd[1], FALSE)
         IN IF instructor.kind \in {"UndefinedVariable", "ParseException"}
            THEN [err |-> instructor.kind, verdict |-> ""]
            ELSE IF student.kind \in {"UndefinedVariable", "ParseException"}
            THEN [err |-> "StudentInputError", verdict |-> ""]
            ELSE IF student.kind = "inf" \/ student.v # instructor.v
            THEN [err |-> "", verdict |-> "incorrect"]
            ELSE [err |-> "", verdict |-> "correct"]

RECURSIVE Trials(_, _, _, _, _)
\* "for i in range(numsamples): ...": [err, verdict], rnd[i] being the value drawn in trial i
Trials(c, expected, given, rnd, i) ==
    IF i > Len(rnd) THEN [err |-> "", verdict |-> "correct"]
    ELSE LET instructor == evaluator(expected, rnd[i], HasK(c))
             student == evaluator(given, rnd[i], FALSE)
             cmp == compare_with_tolerance(student.v, instructor.v, FormulaTolerance(c))
         IN IF instructor.kind \in {"UndefinedVariable", "ParseException"}
            THEN [err |-> instructor.kind, verdict |-> ""]
            ELSE IF student.kind \in {"UndefinedVariable", "ParseException"}
            THEN [err |-> "StudentInputError", verdict |-> ""]
            ELSE IF student.kind = "inf" THEN [err |-> "", verdict |-> "incorrect"]
            ELSE IF cmp.err THEN [err |-> "Exception", verdict |-> ""]
            ELSE IF ~cmp.ok THEN [err |-> "", verdict |-> "incorrect"]
            ELSE Trials(c, expected, given, rnd, i + 1)

check_formula(c, expected, given, rnd) == Trials(c, expected, given, rnd, 1)

FormulaGetScore(c, slf, ctx, sa, rnd) ==
    LET r == check_formula(c, c.declared, sa[slf.answer_id].s, rnd)
    IN IF ~sa[slf.answer_id].has THEN Outcome(RetErr("get_score", sa, "KeyError"), ctx)
       ELSE IF r.err # ""
       THEN Outcome([RetErr("get_score", sa, r.err) EXCEPT !.rnd = rnd], ctx)
       ELSE Outcome([RetMap("get_score", sa, NewMap(slf.answer_id, r.verdict, ""))
                        EXCEPT !.rnd = rnd], ctx)

\* the draws of one get_score call
Draws(c) == IF c.variant = "formularesponse" THEN [1 .. c.samples -> SampleVals] ELSE {<<>>}

\* ------------------------------------------------------------------------
\* get_score and get_answers of the variants that grade in the call itself

get_score(c, slf, ctx, sa, rnd) ==
    CASE c.variant = "multiplechoiceresponse" -> MultipleChoiceGetScore(c, slf, ctx, sa)
      [] c.variant = "truefalseresponse" -> TrueFalseGetScore(c, slf, ctx, sa)
      [] c.variant = "optionresponse" -> OptionGetScore(c, slf, ctx, sa)
      [] c.variant = "numericalresponse" -> NumericalGetScore(c, slf, ctx, sa)
      [] c.variant = "stringresponse" -> StringGetScore(c, slf, ctx, sa)
      [] c.variant \in {"customresponse", "symbolicresponse"} -> CustomGetScore(c, slf, ctx, sa)
      [] c.variant = "formularesponse" -> FormulaGetScore(c, slf, ctx, sa, rnd)
      [] c.variant = "schematicresponse" -> SchematicGetScore(c, slf, ctx, sa)
      [] c.variant = "imageresponse" -> ImageGetScore(c, slf, ctx, sa)

\* "{self.answer_id: ...}"
OneAnswer(slf, text) == [NoAnswers EXCEPT ![slf.answer_id] = text]

\* OptionResponse.get_answers: one entry per input field
OptionAnswers(slf) ==
    [i \in IdPool |-> IF i \in Range(slf.answer_ids) THEN OptionCorrect(i) ELSE "-"]

\* ImageResponse.get_answers: one entry per input field
ImageAnswers(slf) ==
    [i \in IdPool |-> IF i \in Range(slf.answer_ids) THEN "rectangle" ELSE "-"]

\* a get_answers that grades as it answers
get_answers_grading(c, slf, ctx) ==
    Outcome(RetAnswers("get_answers", NoAnswers), ResetCorrect(ctx))

get_answers(c, slf, ctx) ==
    CASE c.variant \in {"multiplechoiceresponse", "truefalseresponse"} ->
            Outcome(RetAnswers("get_answers", OneAnswer(slf, "correct_choices")), ctx)
      [] c.variant = "stringresponse" ->
            Outcome(RetAnswers("get_answers", OneAnswer(slf, strip(c.declared))), ctx)
      [] c.variant \in {"numericalresponse", "formularesponse"} ->
            Outcome(RetAnswers("get_answers", OneAnswer(slf, c.declared)), ctx)
      [] c.variant = "optionresponse" ->
            Outcome(RetAnswers("get_answers", OptionAnswers(slf)), ctx)
      [] c.variant = "imageresponse" ->
            Outcome(RetAnswers("get_answers", ImageAnswers(slf)), ctx)
      [] c.variant \in {"customresponse", "symbolicresponse"} ->
            Outcome(CustomGetAnswers(c, slf), ctx)
      [] c.variant = "schematicresponse" ->
            Outcome(RetAnswers("get_answers", NoAnswers), ctx)
      [] c.variant = "coderesponse" ->
            Ran(CodeGetAnswers(c, slf), ctx, "reference")

\* ------------------------------------------------------------------------
\* The state machine

\* the variants whose calls post to a remote server
Posting(c, op) ==
    \/ op = "get_score" /\ c.variant \in {"coderesponse", "externalresponse"}
    \/ op = "get_answers" /\ c.variant = "externalresponse"

\* what the model remembers of a get_score of the queued variant that ended with r
Track(g, c, r) ==
    [g EXCEPT !.sent = @ \/ (c.variant = "coderesponse" /\ r.kind = "map"),
              !.failed = @ \/ (c.variant = "coderesponse" /\ r.kind = "error")]

Init ==
    /\ cfg \in Cfgs
    /\ phase = "new"
    /\ self = NoSelf
    /\ context = InitContext
    /\ ret = NoRet
    /\ pc = "idle"
    /\ call = NoCall
    /\ ghost = InitGhost
    /\ cb = IdleCb

\* get_score of a variant that grades in the call
GetScore ==
    /\ phase = "ready" /\ pc = "idle" /\ ~Posting(cfg, "get_score")
    /\ \E sa \in StudentAnswers(cfg), rnd \in Draws(cfg) :
          LET o == get_score(cfg, self, context, sa, rnd)
          IN /\ ret' = o.ret
             /\ context' = o.context
             /\ ghost' = [ghost EXCEPT !.repeat = (ret.op = "get_score" /\ ret.sa = sa)]
    /\ UNCHANGED <<cfg, phase, self, pc, call, cb>>

\* get_answers of a variant that answers in the call
GetAnswers ==
    /\ phase = "ready" /\ pc = "idle" /\ ~Posting(cfg, "get_answers")
    /\ LET o == get_answers(cfg, self, context)
       IN /\ ret' = o.ret
          /\ context' = o.context
    /\ ghost' = [ghost EXCEPT !.repeat = FALSE]
    /\ UNCHANGED <<cfg, phase, self, pc, call, cb>>

\* CodeResponse.get_score and ExternalResponse.get_score up to requests.post
GetScoreCall ==
    /\ phase = "ready" /\ pc = "idle" /\ Posting(cfg, "get_score")
    /\ \E sa \in StudentAnswers(cfg), n \in Nets :
          IF MissingKey(self.answer_ids, sa)
          THEN /\ ret' = RetErr("get_score", sa, "Exception")
               /\ UNCHANGED <<context, pc, call, ghost>>
          ELSE /\ context' = [context EXCEPT !.submission = Submission(self.answer_ids, sa)]
               /\ pc' = "posting"
               /\ call' = [op |-> "get_score", sa |-> sa, net |-> n]
               /\ UNCHANGED <<ret, ghost>>
    /\ UNCHANGED <<cfg, phase, self, cb>>

\* ExternalResponse.get_answers up to requests.post
GetAnswersCall ==
    /\ phase = "ready" /\ pc = "idle" /\ Posting(cfg, "get_answers")
    /\ \E n \in Nets :
          /\ pc' = "posting"
          /\ call' = [op |-> "get_answers", sa |-> NoStudentAnswers, net |-> n]
    /\ UNCHANGED <<cfg, phase, self, context, ret, ghost, cb>>

\* the bodies requests.post may return to the call
Replies(c, op) ==
    IF c.variant = "coderesponse" THEN {BadBody("empty")}
    ELSE IF op = "get_score" THEN ScoreReplies ELSE AnswerReplies

\* the rest of the call once requests.post has returned or raised: [ret, context]
AfterPost(c, slf, ctx, cl, reply) ==
    LET o == IF c.variant = "coderesponse" THEN Outcome(CodeGetScore(cl.sa, cl.net), ctx)
             ELSE IF cl.op = "get_score"
             THEN ExternalGetScore(c, slf, ctx, cl.sa, cl.net, reply)
             ELSE Outcome(ExternalGetAnswers(c, slf, cl.net, reply), ctx)
    IN [ret |-> [o.ret EXCEPT !.posted = cl.op,
                              !.msg = IF cl.net = "reply" THEN reply
                                      ELSE BadBody("refused")],
        context |-> o.context]

\* requests.post returns or raises, and the call runs to its end; there is no such step
\* when the server never replies: the post is made without a timeout
PostReturn ==
    /\ pc = "posting" /\ call.net # "silent"
    /\ \E reply \in Replies(cfg, call.op) :
          LET o == AfterPost(cfg, self, context, call, reply)
          IN /\ ret' = o.ret
             /\ context' = o.context
             /\ ghost' = Track(ghost, cfg, o.ret)
    /\ pc' = "idle"
    /\ call' = NoCall
    /\ UNCHANGED <<cfg, phase, self, cb>>

\* CodeResponse.update_score, on the thread of the callback, run without interruption
UpdateScore ==
    /\ phase = "ready" /\ cfg.variant = "coderesponse"
    /\ \E msg \in ScoreMsgs :
          LET o == update_score(self, context, msg)
          IN /\ ret' = o.ret
             /\ context' = o.context
    /\ UNCHANGED <<cfg, phase, self, pc, call, ghost, cb>>

Next ==
    \/ Construct
    \/ GetScore
    \/ GetAnswers
    \/ GetScoreCall
    \/ GetAnswersCall
    \/ PostReturn
    \/ UpdateScore

Spec == Init /\ [][Next]_vars

\* ------------------------------------------------------------------------
\* Hints: evaluate_answers, get_hints and check_hint_condition

\* the class attribute hint_tag; "None" where the class inherits the base's None
hint_tag(v) ==
    CASE v = "optionresponse" -> "optionhint"
      [] v = "numericalresponse" -> "numericalhint"
      [] v = "stringresponse" -> "stringhint"
      [] v = "formularesponse" -> "formulahint"
      [] OTHER -> "None"

\* the names hint conditions carry in name= and hint parts refer to in on=
HintNames == {"a", "b"}

\* the attribute answer= of the hint condition with this name
HintAnswer(v, name) ==
    CASE v = "stringresponse" -> IF name = "a" THEN "London" ELSE "london"
      [] v = "formularesponse" -> IF name = "a" THEN "x+x" ELSE "x*x"
      [] OTHER -> "5"

\* the text of the k-th <hintpart> of the group
HintText(k) == ToString(k)

\* the on= of the hint parts of a group, in document order
HintSeqs == UNION {[1 .. n -> HintNames] : n \in 0 .. MaxHints}

\* the name= of the hint conditions of a group, in document order, each name used once
HintConds ==
    {<<>>} \cup {<<a>> : a \in HintNames}
    \cup {s \in {<<a, b>> : a \in HintNames, b \in HintNames} : s[1] # s[2]}

HintModes == {"unset", "on_request"}

\* the hint functions of the model: bound and setting a hint, bound and raising, unbound
HintFns ==
    {[fn |-> "bound", author |-> "sets"], [fn |-> "bound", author |-> "raises"],
     [fn |-> "unbound", author |-> "-"]}

\* the hint groups of a stanza; a variant without a hint_tag has no conditions to carry
HintGroups(v) ==
    {NoHintGroup}
    \cup {[NoHintGroup EXCEPT !.present = TRUE, !.mode = m, !.hints = h, !.parts = p] :
            m \in HintModes,
            h \in IF hint_tag(v) = "None" THEN {<<>>} ELSE HintConds,
            p \in HintSeqs}
    \cup {[NoHintGroup EXCEPT !.present = TRUE, !.hintfn = f.fn, !.fnauthor = f.author,
                              !.hints = IF hint_tag(v) = "None" THEN <<>> ELSE <<"a">>,
                              !.parts = <<"a">>] : f \in HintFns}

\* the hint function of the author: it hints "again" at an answer that was wrong before
\* and is wrong now, and "first" otherwise, on the last answer id
HintFn(slf, sa, new_cmap, old_cmap) ==
    IF Len(slf.answer_ids) = 0 THEN new_cmap
    ELSE LET aid == slf.answer_ids[Len(slf.answer_ids)]
         IN set_hint_and_mode(new_cmap, aid,
                              IF /\ old_cmap[aid].has /\ old_cmap[aid].correctness = "incorrect"
                                 /\ new_cmap[aid].correctness = "incorrect"
                              THEN "again" ELSE "first", "always")

\* check_hint_condition(hxml_set, student_answers): [none, names]; none is the None the
\* base class returns; hrnd[i] is the value drawn for the one sample of the i-th condition
check_hint_condition(c, slf, sa, hrnd) ==
    LET hints == c.hintgroup.hints
        given == sa[slf.answer_id].s
        formula(i) == check_formula(c, HintAnswer(c.variant, hints[i]), given, <<hrnd[i]>>)
    IN CASE c.variant = "stringresponse" ->
                [none |-> FALSE,
                 names |-> {hints[i] : i \in
                              {j \in DOMAIN hints :
                                 check_string(c, strip(HintAnswer(c.variant, hints[j])),
                                              strip(given))}}]
         [] c.variant = "formularesponse" ->
                [none |-> FALSE,
                 names |-> {hints[i] : i \in
                              {j \in DOMAIN hints :
                                 formula(j).err = "" /\ formula(j).verdict = "correct"}}]
         [] OTHER -> [none |-> TRUE, names |-> {}]

\* a loop that keeps the first hint it sets
HintLoopFirst(c, slf, k, shown, m) ==
    LET parts == c.hintgroup.parts
        hits == {j \in DOMAIN parts : parts[j] \in shown.names}
        first == CHOOSE j \in hits : \A i \in hits : j <= i
    IN IF shown.none /\ Len(parts) > 0 THEN [err |-> "TypeError", map |-> m]
       ELSE IF hits = {} THEN [err |-> "", map |-> m]
       ELSE [err |-> "",
             map |-> set_hint_and_mode(m, slf.answer_ids[Len(slf.answer_ids)],
                                       HintText(first),
                                       IF c.hintgroup.mode = "unset" THEN "always"
                                       ELSE c.hintgroup.mode)]

RECURSIVE HintLoop(_, _, _, _, _)
\* "for hintpart in hintgroup.findall('hintpart'): if hintpart.get('on') in hints_to_show:
\*  ... new_cmap.set_hint_and_mode(aid, hint_text, hintmode)": [err, map]
HintLoop(c, slf, k, shown, m) ==
    LET parts == c.hintgroup.parts
        hintmode == IF c.hintgroup.mode = "unset" THEN "always" ELSE c.hintgroup.mode
    IN IF k > Len(parts) THEN [err |-> "", map |-> m]
       ELSE IF shown.none THEN [err |-> "TypeError", map |-> m]
       ELSE IF parts[k] \notin shown.names THEN HintLoop(c, slf, k + 1, shown, m)
       ELSE IF Len(slf.answer_ids) = 0 THEN [err |-> "IndexError", map |-> m]
       ELSE HintLoop(c, slf, k + 1, shown,
                     set_hint_and_mode(m, slf.answer_ids[Len(slf.answer_ids)],
                                       HintText(k), hintmode))

\* hint conditions that also grade: a satisfied condition marks the answer incorrect
HintConditionsGrading(c, slf, sa, new_cmap, hrnd) ==
    LET hints_to_show == check_hint_condition(c, slf, sa, hrnd)
        aid == slf.answer_ids[Len(slf.answer_ids)]
    IN IF hint_tag(c.variant) # "None" /\ Len(c.hintgroup.hints) > 0
          /\ ~hints_to_show.none /\ hints_to_show.names # {}
       THEN [err |-> "", map |-> CMapSet(new_cmap, aid, "incorrect", ""), calls |-> 0,
             shown |-> hints_to_show.names]
       ELSE [err |-> "", map |-> new_cmap, calls |-> 0, shown |-> {}]

\* the part of get_hints after the hint function: the hint conditions of the group
HintConditions(c, slf, sa, new_cmap, hrnd) ==
    LET hints_to_show == check_hint_condition(c, slf, sa, hrnd)
        r == HintLoop(c, slf, 1, hints_to_show, new_cmap)
    IN IF hint_tag(c.variant) # "None" /\ Len(c.hintgroup.hints) > 0
       THEN [err |-> r.err, map |-> r.map, calls |-> 0, shown |-> hints_to_show.names]
       ELSE [err |-> "", map |-> new_cmap, calls |-> 0, shown |-> {}]

\* a get_hints that passes the hint function by
get_hints_conditions_only(c, slf, sa, new_cmap, old_cmap, hrnd) ==
    IF ~c.hintgroup.present THEN [err |-> "", map |-> new_cmap, calls |-> 0, shown |-> {}]
    ELSE HintConditions(c, slf, sa, new_cmap, hrnd)

\* get_hints(student_answers, new_cmap, old_cmap): [err, map, calls, shown], map being
\* new_cmap as the call leaves it, calls the number of calls of the hint function and shown
\* the names check_hint_condition returned
get_hints(c, slf, sa, new_cmap, old_cmap, hrnd) ==
    IF ~c.hintgroup.present THEN [err |-> "", map |-> new_cmap, calls |-> 0, shown |-> {}]
    ELSE IF c.hintgroup.hintfn = "unbound"
    THEN [err |-> "LoncapaProblemError", map |-> new_cmap, calls |-> 0, shown |-> {}]
    ELSE IF c.hintgroup.hintfn = "bound" /\ c.hintgroup.fnauthor = "raises"
    THEN [err |-> "ResponseError", map |-> new_cmap, calls |-> 1, shown |-> {}]
    ELSE IF c.hintgroup.hintfn = "bound"
    THEN [err |-> "", map |-> HintFn(slf, sa, new_cmap, old_cmap), calls |-> 1,
          shown |-> {}]
    ELSE HintConditions(c, slf, sa, new_cmap, hrnd)

\* evaluate_answers(student_answers, old_cmap): [ret, context]
evaluate_answers(c, slf, ctx, sa, old_cmap, rnd, hrnd) ==
    LET s == get_score(c, slf, ctx, sa, rnd)
        h == get_hints(c, slf, sa, s.ret.map, old_cmap, hrnd)
    IN IF s.ret.kind = "error"
       THEN Outcome([s.ret EXCEPT !.op = "evaluate_answers", !.at = "get_score",
                                  !.old = old_cmap], s.context)
       ELSE IF h.err # ""
       THEN Outcome([RetErr("evaluate_answers", sa, h.err) EXCEPT
                        !.at = "get_hints", !.calls = h.calls, !.shown = h.shown,
                        !.old = old_cmap, !.ran = s.ret.ran], s.context)
       ELSE Outcome([RetMap("evaluate_answers", sa, h.map) EXCEPT
                        !.calls = h.calls, !.shown = h.shown, !.old = old_cmap,
                        !.ran = s.ret.ran, !.rnd = s.ret.rnd], s.context)

\* the old_cmap of a call: empty, or the map of an attempt that was wrong; only a hint
\* function reads it
OldMaps(c, slf) ==
    {EmptyMap}
    \cup IF c.hintgroup.hintfn = "absent" THEN {}
         ELSE {NewMap(slf.answer_ids[i], "incorrect", "") : i \in DOMAIN slf.answer_ids}

\* the submissions of the hint specification: those without a key of another response
HintStudentAnswers(c) == {sa \in StudentAnswers(c) : ~sa[0].has}

\* the draws of the hint conditions of one call, one sample each
HintDraws(c) ==
    IF c.variant = "formularesponse" THEN [DOMAIN c.hintgroup.hints -> SampleVals]
    ELSE {<<>>}

\* the variants the hint specification runs
HintVariants ==
    {"multiplechoiceresponse", "optionresponse", "numericalresponse", "stringresponse",
     "formularesponse"}

\* stanzas __init__ accepts, with well-formed declared answers
HintBases ==
    {c \in Cfgs :
        /\ c.variant \in HintVariants
        /\ InitError(c) = ""
        /\ c.variant = "numericalresponse" => c.declared = "4" /\ c.tolerance = "unset"
        /\ c.variant = "multiplechoiceresponse" => c.correct_choices = {"choice_0"}
        /\ c.variant = "optionresponse" => Len(c.fields) >= 2
        /\ c.variant = "formularesponse" =>
              c.declared = "2*x" /\ c.author = "-" /\ c.samples = 1}

HintCfgs ==
    UNION {{[c EXCEPT !.hintgroup = h] : h \in HintGroups(c.variant)} : c \in HintBases}

HintInit ==
    /\ cfg \in HintCfgs
    /\ phase = "new"
    /\ self = NoSelf
    /\ context = InitContext
    /\ ret = NoRet
    /\ pc = "idle"
    /\ call = NoCall
    /\ ghost = InitGhost
    /\ cb = IdleCb

\* evaluate_answers of a variant that grades in the call
EvaluateAnswers ==
    /\ phase = "ready" /\ pc = "idle" /\ ~Posting(cfg, "get_score")
    /\ \E sa \in HintStudentAnswers(cfg), old_cmap \in OldMaps(cfg, self),
          rnd \in Draws(cfg), hrnd \in HintDraws(cfg) :
          LET o == evaluate_answers(cfg, self, context, sa, old_cmap, rnd, hrnd)
          IN /\ ret' = o.ret
             /\ context' = o.context
    /\ UNCHANGED <<cfg, phase, self, pc, call, ghost, cb>>

HintNext ==
    \/ Construct
    \/ EvaluateAnswers

HintSpec == HintInit /\ [][HintNext]_vars

\* ------------------------------------------------------------------------
\* Score callbacks on several threads: update_score statement by statement

\* the stanzas of the queued variant that __init__ accepts
ConcCfgs ==
    {c \in Cfgs : c.variant = "coderesponse" /\ InitError(c) = "" /\ c.stanza
                   /\ c.author = "answer"}

\* the score messages of the callbacks: the well-formed ones, and one that is no XML
ConcMsgs == {m \in ScoreMsgs : m.message # "none"}

ConcInit ==
    /\ cfg \in ConcCfgs
    /\ phase = "new"
    /\ self = NoSelf
    /\ context = InitContext
    /\ ret = NoRet
    /\ pc = "idle"
    /\ call = NoCall
    /\ ghost = InitGhost
    /\ cb = IdleCb

\* thread t takes a step: every other thread that is inside update_score has been
\* interleaved with
Mixed(t) == [u \in Threads |-> IF u # t /\ cb.pc[u] # "idle" THEN TRUE ELSE cb.mixed[u]]

\* thread t enters update_score(score_msg) and runs it up to and including
\* "self.context['correct'] = ['correct']", or to the exception it raises before
CbBegin(t) ==
    /\ phase = "ready" /\ cfg.variant = "coderesponse" /\ cb.pc[t] = "idle"
    /\ \E msg \in ConcMsgs :
          LET st == UpdateScoreStart(context, msg)
          IN IF st.err # ""
             THEN /\ ret' = [RetErr("update_score", NoStudentAnswers, st.err)
                                EXCEPT !.msg = msg]
                  /\ cb' = [cb EXCEPT !.mixed = [Mixed(t) EXCEPT ![t] = FALSE], !.last = t,
                                      !.alone = TRUE]
                  /\ UNCHANGED context
             ELSE /\ context' = st.context
                  /\ cb' = [cb EXCEPT !.pc[t] = "apply", !.msg[t] = msg,
                                      !.mixed = [Mixed(t) EXCEPT ![t] = FALSE]]
                  /\ UNCHANGED ret
    /\ UNCHANGED <<cfg, phase, self, pc, call, ghost>>

\* thread t runs "if ad in admap: self.context['correct'][0] = admap[ad]"
CbApply(t) ==
    /\ cb.pc[t] = "apply"
    /\ context' = ApplyAdmap(context, cb.msg[t])
    /\ cb' = [cb EXCEPT !.pc[t] = "build", !.mixed = Mixed(t)]
    /\ UNCHANGED <<cfg, phase, self, ret, pc, call, ghost>>

\* thread t runs the loop that builds the map, and returns it
CbBuild(t) ==
    /\ cb.pc[t] = "build"
    /\ ret' = [BuildResult("update_score", NoStudentAnswers, self, context, cb.msg[t])
                  EXCEPT !.msg = cb.msg[t]]
    /\ cb' = [cb EXCEPT !.pc[t] = "idle", !.msg[t] = BadBody("garbage"),
                        !.mixed = [Mixed(t) EXCEPT ![t] = FALSE], !.last = t,
                        !.alone = ~cb.mixed[t]]
    /\ UNCHANGED <<cfg, phase, self, context, pc, call, ghost>>

ConcNext ==
    \/ Construct
    \/ \E t \in Threads : CbBegin(t)
    \/ \E t \in Threads : CbApply(t)
    \/ \E t \in Threads : CbBuild(t)

ConcSpec == ConcInit /\ [][ConcNext]_vars

\* ------------------------------------------------------------------------
\* Properties

Queued == cfg.variant = "coderesponse"

External == cfg.variant = "externalresponse"

\* the call that ended last posted its request and the post raised
TransportFailed == ret.posted # "" /\ ret.msg.text = "refused"

\* C1: a get_score of CodeResponse that reached the queue returns a map without a correct or
\* incorrect verdict for any answer id, and the only call of that response that ever
\* returns a map with such a verdict is update_score
C1_UnknownUntilUpdateScore ==
    Queued =>
        /\ (ret.op = "get_score" /\ ret.kind = "map") => Graded(ret.map) = {}
        /\ (ret.kind = "map" /\ Graded(ret.map) # {}) => ret.op = "update_score"

C1_Witness ==
    /\ Queued /\ self.answer_ids # <<>>
    /\ ret.op = "get_score" /\ ret.kind = "map" /\ ret.posted = "get_score"
    /\ ghost.sent /\ Keys(ret.map) = {}

\* C2: update_score returns a verdict only for a submission that get_score sent to the
\* queue before: no map comes out of update_score while nothing was sent, and none after
\* the only sends failed
C2_GradedOnlyAfterSent ==
    (Queued /\ ret.op = "update_score" /\ ret.kind = "map") => ghost.sent

\* the verdict a reply with award-detail code ad must get
C3_Expected(ad) ==
    CASE ad = "EXACT_ANS" -> "correct"
      [] ad = "WRONG_FORMAT" -> "incorrect"
      [] OTHER -> "correct"

\* a map built from a reply of the judge: by update_score, or by the get_score of
\* ExternalResponse when its request succeeded
C3_FromReply ==
    /\ ret.kind = "map" /\ ret.msg.text = "xml"
    /\ \/ Queued /\ ret.op = "update_score"
       \/ External /\ ret.op = "get_score"

\* C3: for a response with one answer id, the map built from a reply gives that id the
\* verdict correct for EXACT_ANS, incorrect for WRONG_FORMAT, and correct for any other code
C3_AwardDetailVerdict ==
    (C3_FromReply /\ Len(self.answer_ids) = 1) =>
        /\ Keys(ret.map) = {self.answer_ids[1]}
        /\ ret.map[self.answer_ids[1]].correctness = C3_Expected(ret.msg.ad)

C3_Witness ==
    /\ C3_FromReply /\ Len(self.answer_ids) = 1 /\ External
    /\ ret.msg.ad = "WRONG_FORMAT"
    /\ ret.map[self.answer_ids[1]].correctness = "incorrect"

\* C4: a get_score of CodeResponse whose post to the queue fails ends with an error: it
\* returns no map, so no answer id gets a verdict from it
C4_TransportFailureRaises ==
    (Queued /\ ret.op = "get_score" /\ TransportFailed) =>
        /\ ret.kind = "error" /\ ret.err = "Exception"
        /\ Keys(ret.map) = {}

C4_Witness ==
    Queued /\ ret.op = "get_score" /\ TransportFailed /\ ret.kind = "error" /\ ghost.failed

\* the get_score of ExternalResponse that ended last made its request and the request
\* failed: the post raised, or the reply was empty or no XML
C5_RequestFailed ==
    External /\ ret.op = "get_score" /\ ret.posted = "get_score" /\ ret.msg.text # "xml"

\* C5: when the request of ExternalResponse.get_score fails, the call raises the error of
\* the request and returns no map if DEBUG is off; if DEBUG is on it returns a map that holds
\* incorrect for every answer id and carries the text of the error
C5_RequestFailureReported ==
    C5_RequestFailed =>
        IF cfg.DEBUG
        THEN /\ ret.kind = "map"
             /\ Keys(ret.map) = Range(self.answer_ids)
             /\ \A i \in Range(self.answer_ids) : ret.map[i].correctness = "incorrect"
             /\ \E i \in Range(self.answer_ids) : ret.map[i].msg = "errtext"
        ELSE ret.kind = "error" /\ ret.err = "Exception" /\ Keys(ret.map) = {}

\* C6: a call that has posted its request to the remote server always comes back: while it
\* waits in requests.post, the step that ends the post is possible
C6_PostAlwaysReturns == (pc = "posting") => ENABLED PostReturn

C7_Absent(c) == required_attributes(c.variant) # {} /\ c.answer = "absent"

C7_Rejected(c) == BadTag(c) \/ TooManyFields(c) \/ C7_Absent(c)

\* C7: __init__ raises LoncapaProblemError exactly when a field's tag is not allowed, there
\* are more fields than max_inputfields, or a required attribute is absent; in every other
\* case it succeeds and answer_ids lists the ids of the fields in their order
C7_ConstructionRejectsExactly ==
    (phase # "new") =>
        /\ (phase = "broken" /\ ret.err = "LoncapaProblemError") <=> C7_Rejected(cfg)
        /\ ~C7_Rejected(cfg) => (phase = "ready" /\ self.answer_ids = IdsOf(cfg.fields))

\* C8: every key of a map that get_score returned is an answer id of the response
C8_OwnAnswerIdsOnly ==
    (phase = "ready" /\ ret.op = "get_score" /\ ret.kind = "map") =>
        Keys(ret.map) \subseteq Range(self.answer_ids)

C8_Witness ==
    /\ phase = "ready" /\ ret.op = "get_score" /\ ret.kind = "map"
    /\ cfg.variant = "customresponse"
    /\ ret.sa[0].has /\ Keys(ret.map) = Range(self.answer_ids) /\ Len(self.answer_ids) = 2

\* the variants that grade in the call without a random draw
C9_Variants ==
    {"multiplechoiceresponse", "truefalseresponse", "optionresponse", "numericalresponse",
     "stringresponse", "customresponse", "imageresponse"}

\* get_score returns for every submission what it returns for it on the response as
\* constructed, whatever calls have changed the context since
C9_AsOnFreshInstance ==
    \A sa \in StudentAnswers(cfg), rnd \in Draws(cfg) :
        get_score(cfg, self, context, sa, rnd).ret = get_score(cfg, self, InitContext, sa, rnd).ret

\* the inline checker of a customresponse keeps a count of its runs in the context
C9_KeepsState == cfg.variant = "customresponse" /\ self.code = "str" /\ cfg.author = "stash"

\* C9 as amended: in every state a response of these variants can reach, its get_score
\* returns for each submission what the freshly constructed response returns for it, so
\* any two calls with the same submission return the same map, whatever calls lie between
\* them; excepted is the customresponse whose checker keeps state of its own in the context
C9_SameSubmissionSameMap ==
    (phase = "ready" /\ cfg.variant \in C9_Variants /\ ~C9_KeepsState) => C9_AsOnFreshInstance

C9_Witness ==
    /\ phase = "ready" /\ cfg.variant = "customresponse" /\ ~C9_KeepsState
    /\ ghost.repeat /\ ret.op = "get_score" /\ ret.kind = "map"
    /\ context # InitContext
    /\ Graded(ret.map) # {}

\* C9: two get_score calls in a row on a response of these variants, with the same
\* submission, return the same
C9_TwiceTheSame ==
    [][(/\ phase = "ready" /\ cfg.variant \in C9_Variants
        /\ ret.op = "get_score" /\ ret'.op = "get_score" /\ ret'.sa = ret.sa)
       => (ret'.kind = ret.kind /\ ret'.map = ret.map)]_vars

\* C10: a get_answers call leaves the context as it found it, returns no CorrectMap, posts
\* no get_score request and runs no checker of submissions
C10_GetAnswersGradesNothing ==
    [][/\ GetAnswersCall => (context' = context /\ ret' = ret /\ call'.op = "get_answers")
       /\ (GetAnswers \/ (PostReturn /\ call.op = "get_answers")) =>
             /\ context' = context
             /\ ret'.op = "get_answers" /\ ret'.kind \in {"answers", "error"}
             /\ Keys(ret'.map) = {}
             /\ ret'.posted \in {"", "get_answers"}
             /\ "checker" \notin ret'.ran]_vars

C10_Witness ==
    /\ ret.op = "get_answers" /\ ret.kind = "answers"
    /\ context.correct # <<>>
    /\ ret.posted = "get_answers" \/ ret.ran = {"reference"}
\* the hint group of the stanza declares a hint function
HintFnDeclared == cfg.hintgroup.present /\ cfg.hintgroup.hintfn # "absent"

\* the call that ended last is an evaluate_answers whose get_score returned, so that
\* get_hints ran
HintsRan == ret.op = "evaluate_answers" /\ ret.at # "get_score"

\* the answer id hints are set on
LastId == self.answer_ids[Len(self.answer_ids)]

\* get_hints called the hint function once, after scoring and with the arguments of the
\* call: a raise of the function ended it with ResponseError, and otherwise the hint on
\* the map is the one the function makes of the scored new map and the old map, and none
\* of the hint conditions has written over it
C11_CalledOnce ==
    /\ ret.calls = 1
    /\ cfg.hintgroup.fnauthor = "raises" =>
            ret.kind = "error" /\ ret.err = "ResponseError" /\ ret.at = "get_hints"
    /\ cfg.hintgroup.fnauthor = "sets" =>
            /\ ret.kind = "map"
            /\ ret.map[LastId].correctness \in {"correct", "incorrect"}
            /\ ret.map[LastId].hintmode = "always"
            /\ ret.map[LastId].hint =
                    IF /\ ret.old[LastId].has /\ ret.old[LastId].correctness = "incorrect"
                       /\ ret.map[LastId].correctness = "incorrect"
                    THEN "again" ELSE "first"

\* C11 as stated: when the hint group declares a hint function, get_hints calls it exactly
\* once with (answer ids, submitted answers, new map, old map), after scoring; a raise of
\* the call ends get_hints with ResponseError; the hint conditions are not evaluated
C11_DeclaredIsCalledOnce == (HintFnDeclared /\ HintsRan) => C11_CalledOnce

\* C11: when the hint group declares a hint function that the context defines, get_hints
\* calls it exactly once with (answer ids, submitted answers, new map, old map), after
\* scoring, a raise of the call ends get_hints with ResponseError and the hint conditions
\* are not evaluated; when the context does not define the declared function, get_hints
\* raises LoncapaProblemError without calling anything
C11_HintFunction ==
    (HintFnDeclared /\ HintsRan) =>
        IF cfg.hintgroup.hintfn = "bound" THEN C11_CalledOnce
        ELSE /\ ret.kind = "error" /\ ret.err = "LoncapaProblemError"
             /\ ret.at = "get_hints" /\ ret.calls = 0

\* a hint function has hinted at a repeated wrong answer that satisfies a hint condition
\* of the same group
C11_Witness ==
    /\ HintFnDeclared /\ HintsRan /\ cfg.hintgroup.hintfn = "bound"
    /\ cfg.variant = "stringresponse" /\ cfg.hintgroup.hints = <<"a">>
    /\ ret.sa[self.answer_id].s = "London"
    /\ ret.kind = "map" /\ ret.map[LastId].hint = "again"

\* get_hints took the path of the hint conditions and returned
ConditionPath ==
    /\ HintsRan /\ ret.kind = "map"
    /\ cfg.hintgroup.present /\ cfg.hintgroup.hintfn = "absent"

\* the hint conditions of a string response the submission of the last call satisfies
C12_Satisfied ==
    LET given == strip(ret.sa[self.answer_id].s)
        expected(n) == strip(HintAnswer(cfg.variant, n))
    IN {n \in Range(cfg.hintgroup.hints) :
          IF cfg.type = "ci" THEN lower(given) = lower(expected(n)) ELSE given = expected(n)}

\* the hint parts whose condition is satisfied
C12_Hits == {k \in DOMAIN cfg.hintgroup.parts : cfg.hintgroup.parts[k] \in ret.shown}

TrueFalseScored == cfg.variant = "truefalseresponse" /\ ret.op = "get_score"

\* the choice ids of the submission of the last call; none when the key is missing
C13_Submitted ==
    IF ret.sa[self.answer_id].has
    THEN {ret.sa[self.answer_id].l[k] : k \in DOMAIN ret.sa[self.answer_id].l}
    ELSE {}

\* C13: TrueFalseResponse.get_score returns correct if and only if the set of submitted
\* choice ids equals the declared correct-choice set: the exact set in any order is
\* correct, every strict subset and every strict superset is incorrect, and a missing
\* submission counts as the empty set
C13_ExactSetOnly ==
    TrueFalseScored =>
        /\ ret.kind = "map" /\ Keys(ret.map) = {self.answer_id}
        /\ (\A x \in Choices : x \in C13_Submitted <=> x \in cfg.correct_choices)
              <=> ret.map[self.answer_id].correctness = "correct"
        /\ (\E x \in Choices : ~(x \in C13_Submitted <=> x \in cfg.correct_choices))
              <=> ret.map[self.answer_id].correctness = "incorrect"
        /\ (~ret.sa[self.answer_id].has /\ cfg.correct_choices = {})
              => ret.map[self.answer_id].correctness = "correct"

\* the two correct choices were submitted in the other order and graded correct
C13_Witness ==
    /\ TrueFalseScored /\ cfg.correct_choices = Choices
    /\ ret.sa[self.answer_id].l = <<"choice_1", "choice_0">>
    /\ ret.map[self.answer_id].correctness = "correct"

\* the last call is a get_score of a numerical response on a submission that has the key
NumericalScored ==
    cfg.variant = "numericalresponse" /\ ret.op = "get_score" /\ ret.sa[self.answer_id].has

\* the declared answer or the declared tolerance of the stanza is no number
C14_MalformedStanza ==
    \/ NumEval(cfg.declared) < 0
    \/ cfg.tolerance \notin {"unset", "25%"} /\ NumEval(cfg.tolerance) < 0

\* C14: NumericalResponse.get_score raises StudentInputError when the submitted value
\* cannot be evaluated, and only then: a malformed declared answer or tolerance is
\* reported as a specification error (LoncapaProblemError), not as a student-input error
C14_StudentInputErrorOnlyForSubmission ==
    NumericalScored =>
        /\ NumEval(ret.sa[self.answer_id].s) < 0 =>
                ret.kind = "error" /\ ret.err = "StudentInputError"
        /\ (ret.kind = "error" /\ ret.err = "StudentInputError") =>
                NumEval(ret.sa[self.answer_id].s) < 0
        /\ (C14_MalformedStanza /\ NumEval(ret.sa[self.answer_id].s) >= 0) =>
                ret.kind = "error" /\ ret.err = "LoncapaProblemError"

\* the last call is a get_score of a formula response that came to check_formula
FormulaChecked ==
    cfg.variant = "formularesponse" /\ ret.op = "get_score" /\ ret.sa[self.answer_id].has

\* trial i of the last call passed: under the value drawn for it the student's result is
\* finite and within tolerance of the instructor's
C15_TrialPasses(i) ==
    LET instructor == evaluator(cfg.declared, ret.rnd[i], HasK(cfg))
        student == evaluator(ret.sa[self.answer_id].s, ret.rnd[i], FALSE)
    IN student.kind = "num" /\ instructor.kind = "num" /\ student.v = instructor.v

\* C15: check_formula with sample count N returns correct if and only if every one of the
\* N trials passes, a trial passing when the student's result is finite and within
\* tolerance of the instructor's under the same sampled values; the first failing trial
\* makes the verdict incorrect
C15_AllTrialsPass ==
    (FormulaChecked /\ ret.kind = "map") =>
        /\ Len(ret.rnd) = cfg.samples
        /\ ret.map[self.answer_id].correctness = "correct"
              <=> \A i \in DOMAIN ret.rnd : C15_TrialPasses(i)
        /\ ret.map[self.answer_id].correctness = "incorrect"
              <=> \E i \in DOMAIN ret.rnd : ~C15_TrialPasses(i)

\* the first trial passed, the second did not, and the verdict is incorrect
C15_Witness ==
    /\ FormulaChecked /\ ret.kind = "map" /\ Len(ret.rnd) = 2
    /\ C15_TrialPasses(1) /\ ~C15_TrialPasses(2)
    /\ ret.map[self.answer_id].correctness = "incorrect"

\* in the first trial of the last call the evaluation of the expected or of the submitted
\* expression met a name that is not defined
C16_UndefinedInTrial ==
    /\ FormulaChecked /\ Len(ret.rnd) >= 1
    /\ \/ evaluator(cfg.declared, ret.rnd[1], HasK(cfg)).kind = "UndefinedVariable"
       \/ evaluator(ret.sa[self.answer_id].s, ret.rnd[1], FALSE).kind = "UndefinedVariable"

\* C16: in check_formula an undefined-variable failure of either evaluation, the
\* instructor's or the student's, is reported as StudentInputError and never as any other
\* kind of failure
C16_UndefinedVariableIsStudentInput ==
    C16_UndefinedInTrial => ret.kind = "error" /\ ret.err = "StudentInputError"

\* the submission of the last call is the expected expression itself, and every name the
\* expected expression uses is a sampled variable or a name the author's script defines
C17_SubmittedExpected ==
    /\ FormulaChecked /\ ret.sa[self.answer_id].s = cfg.declared
    /\ cfg.declared = "k*x" => HasK(cfg)

\* C17: for every expected expression, sampling range and sample count, the grading of a
\* submission identical to the expected expression returns correct, also when the
\* expected expression uses names the author defined in the evaluation context
C17_ExpectedIsCorrect ==
    C17_SubmittedExpected =>
        ret.kind = "map" /\ ret.map[self.answer_id].correctness = "correct"

\* the last call is a get_score of an image response that returned its map
ImageScored == cfg.variant = "imageresponse" /\ ret.op = "get_score" /\ ret.kind = "map"

\* the point submitted for an answer id in the last call
C18_Point(aid) == ret.sa[aid].l

\* the four corners of the declared rectangle
C18_Corners ==
    {<<RectLlx, RectLly>>, <<RectLlx, RectUry>>, <<RectUrx, RectLly>>, <<RectUrx, RectUry>>}

\* the point lies one unit outside an edge of the declared rectangle
C18_OneOutside(p) ==
    p[1] = RectLlx - 1 \/ p[1] = RectUrx + 1 \/ p[2] = RectLly - 1 \/ p[2] = RectUry + 1

\* C18: ImageResponse.get_score marks an answer id correct if and only if the submitted
\* point (x,y) satisfies llx <= x <= urx and lly <= y <= ury for the declared rectangle:
\* the four corners are correct and a point one unit outside any edge is incorrect
C18_InsideRectangle ==
    ImageScored =>
        /\ Keys(ret.map) = {self.answer_ids[k] : k \in DOMAIN self.answer_ids}
        /\ \A k \in DOMAIN self.answer_ids :
              LET aid == self.answer_ids[k]
                  p == C18_Point(aid)
                  inside == ~(p[1] < RectLlx \/ p[1] > RectUrx \/ p[2] < RectLly \/ p[2] > RectUry)
              IN /\ ret.map[aid].correctness = (IF inside THEN "correct" ELSE "incorrect")
                 /\ p \in C18_Corners => ret.map[aid].correctness = "correct"
                 /\ C18_OneOutside(p) => ret.map[aid].correctness = "incorrect"

\* one field was given a corner and graded correct while another was given a point one
\* unit outside an edge and graded incorrect
C18_Witness ==
    /\ ImageScored
    /\ \E k \in DOMAIN self.answer_ids :
          /\ C18_Point(self.answer_ids[k]) = <<RectUrx, RectUry>>
          /\ ret.map[self.answer_ids[k]].correctness = "correct"
    /\ \E k \in DOMAIN self.answer_ids :
          /\ C18_OneOutside(C18_Point(self.answer_ids[k]))
          /\ ret.map[self.answer_ids[k]].correctness = "incorrect"

\* the last call is a get_score of an image response on a submission that has every key
ImageCalled ==
    /\ cfg.variant = "imageresponse" /\ ret.op = "get_score"
    /\ \A k \in DOMAIN self.answer_ids : ret.sa[self.answer_ids[k]].has

\* the rectangle of one of the fields cannot be parsed; every submitted value is a point
C19_BadRectangle ==
    /\ ImageCalled
    /\ \E k \in DOMAIN self.answer_ids : cfg.badrect = self.answer_ids[k]
    /\ \A k \in DOMAIN self.answer_ids : ret.sa[self.answer_ids[k]].s = "point"

\* every rectangle can be parsed; one of the submitted values is no point
C19_BadSubmission ==
    /\ ImageCalled
    /\ \A k \in DOMAIN self.answer_ids : cfg.badrect # self.answer_ids[k]
    /\ \E k \in DOMAIN self.answer_ids : ret.sa[self.answer_ids[k]].s # "point"

\* C19: in ImageResponse.get_score a rectangle that cannot be parsed ends the call with a
\* specification error (LoncapaProblemError) and a submission that cannot be parsed ends it
\* with a student-input error (StudentInputError); in both cases no verdict is returned
C19_ParseErrorsClassified ==
    /\ C19_BadRectangle =>
          ret.kind = "error" /\ ret.err = "LoncapaProblemError" /\ Graded(ret.map) = {}
    /\ C19_BadSubmission =>
          ret.kind = "error" /\ ret.err = "StudentInputError" /\ Graded(ret.map) = {}

\* neither of the two failures returns a verdict
C19_NoVerdictKept ==
    (C19_BadRectangle \/ C19_BadSubmission) => ret.kind = "error" /\ Graded(ret.map) = {}

\* the last call is a get_score of a custom or symbolic response that called its checker
\* function, and the function returned no value
C20_ReturnedNothing ==
    /\ cfg.variant \in {"customresponse", "symbolicresponse"}
    /\ self.code = "fn" /\ cfg.author = "none"
    /\ ret.op = "get_score" /\ ret.ran = {"checker"}

\* C20: when the checker function of a custom response returns a result of an unknown
\* shape (neither a boolean nor a dict with a correctness flag and a message, for example
\* no value at all), get_score fails with an error and returns no incorrect verdict
C20_UnknownShapeFails ==
    C20_ReturnedNothing =>
        /\ ret.kind = "error"
        /\ \A i \in IdPool : ret.map[i].correctness # "incorrect"

\* a custom response whose stanza has no <answer> child and no checker function the
\* context defines, and is well-formed otherwise
C21_NoChecker ==
    /\ cfg.variant = "customresponse" /\ ~cfg.stanza /\ cfg.cfn \in {"absent", "unbound"}
    /\ ValidationError(cfg) = ""

\* C21: a custom response that has neither checker code nor a resolvable checker function
\* fails with a specification error (LoncapaProblemError) at construction or at the first
\* get_score; it never constructs and then grades submissions with a defaulted verdict
C21_MissingCheckerFails ==
    C21_NoChecker =>
        /\ phase = "broken" => ret.err = "LoncapaProblemError"
        /\ (phase = "ready" /\ ret.op = "get_score" /\ ~MissingKey(self.answer_ids, ret.sa)) =>
              /\ ret.kind = "error" /\ ret.err = "LoncapaProblemError"
              /\ Keys(ret.map) = {}

\* a checker function the stanza names and the context does not define is refused at
\* construction
C21_UnboundRefused ==
    (C21_NoChecker /\ cfg.cfn = "unbound" /\ phase # "new") =>
        phase = "broken" /\ ret.err = "LoncapaProblemError"

\* a score callback of a response with one answer id has just returned its map
CallbackReturned ==
    /\ Queued /\ cb.last # 0 /\ ret.op = "update_score" /\ ret.kind = "map"
    /\ Len(self.answer_ids) = 1

\* C22: when two score callbacks of the same response instance run interleaved, the map
\* each call returns still reflects only the award-detail code of the message passed to
\* that call
C22_OwnAwardDetail ==
    CallbackReturned =>
        ret.map[self.answer_ids[1]].correctness = C3_Expected(ret.msg.ad)

\* a callback no other callback ran inside of returns the verdict of its own message
C22_AloneOwnAwardDetail ==
    (CallbackReturned /\ cb.alone) =>
        ret.map[self.answer_ids[1]].correctness = C3_Expected(ret.msg.ad)

\* the last call is a get_score of a custom or symbolic response
CustomScored == cfg.variant \in {"customresponse", "symbolicresponse"} /\ ret.op = "get_score"

\* C23: CustomResponse.get_score never returns a map that holds an unknown verdict: on the
\* inline-code path and on the checker-function path every answer id of the response ends
\* correct or incorrect, or the call fails with an error, also when the inline code raises
\* or assigns no verdict
C23_NoUnknownVerdict ==
    (CustomScored /\ ret.kind = "map") =>
        /\ Keys(ret.map) = {self.answer_ids[k] : k \in DOMAIN self.answer_ids}
        /\ \A i \in Keys(ret.map) : ret.map[i].correctness \in {"correct", "incorrect"}

\* on the checker-function path every verdict of a returned map is correct or incorrect
C23_FunctionPathGraded ==
    (CustomScored /\ ret.kind = "map" /\ self.code = "fn") =>
        \A i \in Keys(ret.map) : ret.map[i].correctness \in {"correct", "incorrect"}

\* the last call took in a well-formed reply of the judge for a response with two or more
\* answer ids: an update_score, or a get_score of ExternalResponse whose request succeeded
C24_WellFormedReply ==
    /\ \/ Queued /\ ret.op = "update_score"
       \/ External /\ ret.op = "get_score" /\ ret.posted = "get_score"
    /\ ret.msg.text = "xml" /\ ret.msg.ad \in AwardCodes /\ ret.msg.message # "none"
    /\ Len(self.answer_ids) >= 2

\* C24: for an externally graded response with two or more answer ids, taking in a
\* well-formed reply of the judge returns a map that has a verdict for every answer id
C24_VerdictForEveryId ==
    C24_WellFormedReply =>
        /\ ret.kind = "map"
        /\ Graded(ret.map) = {self.answer_ids[k] : k \in DOMAIN self.answer_ids}

\* the map get_score returned inside the evaluate_answers that ended last
Scored == get_score(cfg, self, context, ret.sa, ret.rnd).ret.map

\* the evaluate_answers that ended last returned, and its get_hints called no hint function
C25_NoHintFunction == HintsRan /\ ret.kind = "map" /\ cfg.hintgroup.hintfn = "absent"

\* C25: on the path of the hint conditions get_hints changes only the hint text and the
\* hint mode of the last answer id: the correctness, partial credit and message of every
\* entry of the new map, and every field of every other answer id, are after get_hints
\* what they were after get_score; with no hint group the new map is left as it was
C25_OnlyHintChanges ==
    C25_NoHintFunction =>
        /\ \A i \in IdPool :
              /\ ret.map[i].has = Scored[i].has
              /\ ret.map[i].correctness = Scored[i].correctness
              /\ ret.map[i].npoints = Scored[i].npoints
              /\ ret.map[i].msg = Scored[i].msg
              /\ (Len(self.answer_ids) = 0 \/ i # LastId) => ret.map[i] = Scored[i]
        /\ ~cfg.hintgroup.present => ret.map = Scored

\* a hint was set on a graded answer, which kept its verdict
C25_Witness ==
    /\ C25_NoHintFunction /\ ret.map[LastId].hint # ""
    /\ Scored[LastId].hint = "" /\ ret.map[LastId].correctness = "incorrect"
    /\ Scored[LastId].correctness = "incorrect"

\* a response with two answer ids went through a hint group and kept the map of get_score
C25_WitnessTwoIds ==
    /\ C25_NoHintFunction /\ cfg.hintgroup.present /\ Len(self.answer_ids) >= 2
    /\ Cardinality(Keys(ret.map)) >= 2 /\ ret.map = Scored

====
